---- MODULE Spec2Model ----
(***************************************************************************)
(* TSL camera screen (sentence builder, manual capture, auto-capture loop) *)
(* together with the hidden-WebView hand landmark detector it drives.      *)
(*                                                                         *)
(* JavaScript runs one handler at a time.  Every action below is one run   *)
(* of a handler up to its next await: a tap handler, a timer callback, a   *)
(* WebView message, or the continuation of an awaited promise.  A promise  *)
(* continuation runs as a microtask of the handler that settled it, so     *)
(* settling a detect() promise and resuming the awaiting capture cycle is  *)
(* one action.                                                             *)
(*                                                                         *)
(* Times are in milliseconds; coordinates are in thousandths of the        *)
(* normalised image size (0.035 is 35).                                    *)
(***************************************************************************)
EXTENDS Integers, Sequences, FiniteSets, TLC

(* ---------------------------- program constants ------------------------ *)
DETECT_TIMEOUT == 15000
AUTO_CAPTURE_INTERVAL == 1500
POSE_CHANGE_THRESHOLD == 35
STABILITY_FRAMES == 2
DUPLICATE_LETTER_COOLDOWN == 2000
Infinity == 1000000000

(* ------------------------------- bounds -------------------------------- *)
\* detect() calls: of the screen and bridge specifications, of a caller that
\* does not wait for the detector, of a manual capture beside the loop, of
\* the loop's specifications
MaxCalls == 2
ClientCalls == 3
MixedCalls == 3
LoopCalls == 4
\* attempts asked of predictSignWithRetry, clock steps of its specification
MaxAttempts == 3
RetrySteps == 4
\* clock steps of the malformed-pose and of the mixed specification
PoseSteps == 9
TrackSteps == 9
MixedSteps == 4
\* effect runs that start a loop chain
MaxRuns == 2
\* sentence length up to which a tap on Space is considered
MaxSpace == 3
\* landmarks in an array handed to landmarkDistance
MaxLandmarks == 2
\* runs of startRealTimeDetection, clock steps of the real-time screen
VideoStarts == 2
VideoSteps == 8
HistorySteps == 7
\* initialize() calls loading, detectHands() calls estimating, at one time
MaxLoads == 2
MaxDetectors == 2
MaxEstimates == 3
\* clock steps of the screen, the loop and the duplicate-filter specifications,
\* and those of the bridge specifications past the detector's timeout
ScreenSteps == 2
LoopSteps == 9
DupSteps == 5
BridgeSteps == 1

\* Each specification explores the program under bounds of its own, held in
\* the record env (constant in every behaviour):
\*   calls    detect() calls issued in one behaviour
\*   runs     runs of the auto-capture loop effect that start a loop chain
\*   step     granularity of the clock
\*   active   detect() calls are issued until this time
\*   horizon  the clock stops at this time
\*   space    taps on Space are considered while the sentence is shorter

(* ------------------------------- poses --------------------------------- *)
\* Poses are named; Landmarks gives the landmark array of a pose.  "null" is
\* JavaScript's null (no hand / no previous pose).  Q is a small movement away
\* from P (mean distance 35, just the threshold); R is a different pose (40
\* from P, 75 from Q).
Poses == {"P", "Q", "R"}
\* M is an answer of the WebView with a landmark missing
Malformed == {"M"}
AllPoses == Poses \cup Malformed

Landmarks(p) ==
    CASE p = "P" -> << <<500, 500, 0>>, <<600, 400, 0>> >>
      [] p = "Q" -> << <<570, 500, 0>>, <<600, 400, 0>> >>
      [] p = "R" -> << <<500, 500, 0>>, <<648, 464, 0>> >>
      [] p = "M" -> << <<500, 500, 0>> >>

\* MEDIAPIPE_CONFIG.HAND_LANDMARK_COUNT, in the scale of the poses above
HAND_LANDMARK_COUNT == Len(Landmarks("P"))

\* validateLandmarks: the array has the full count of landmarks (every
\* coordinate of the poses above is a number)
validateLandmarks(landmarks) == Len(landmarks) = HAND_LANDMARK_COUNT

\* Math.sqrt on the perfect squares the poses above produce
Sqrt(n) == CHOOSE r \in 0..n : r * r = n

RECURSIVE SumDistance(_, _, _)
SumDistance(a, b, i) ==
    IF i = 0 THEN 0
    ELSE LET dx == a[i][1] - b[i][1]
             dy == a[i][2] - b[i][2]
             dz == a[i][3] - b[i][3]
         IN  SumDistance(a, b, i - 1) + Sqrt(dx * dx + dy * dy + dz * dz)

\* the distance of every landmark of a to the first landmark of b
landmarkDistanceToFirst(a, b) ==
    IF Len(a) # Len(b) \/ Len(a) = 0 THEN Infinity
    ELSE SumDistance(a, [i \in 1..Len(b) |-> b[1]], Len(a)) \div Len(a)

landmarkDistance(a, b) ==
    IF Len(a) # Len(b) \/ Len(a) = 0 THEN Infinity
    ELSE SumDistance(a, b, Len(a)) \div Len(a)

\* The landmark arrays the distance is measured on: up to MaxLandmarks
\* landmarks, each one of the corners of a triangle whose sides have whole
\* lengths (5, 12 and 13), so that Sqrt is exact on them.
Points == {<<0, 0, 0>>, <<3, 4, 0>>, <<3, 4, 12>>}
PoseArrays == UNION {[1..n -> Points] : n \in 0..MaxLandmarks}

\* landmarkDistance over the named poses
Distance == [a \in AllPoses, b \in AllPoses |-> landmarkDistance(Landmarks(a), Landmarks(b))]

(* --------------------------- classifier -------------------------------- *)
Letters == {"A", "B"}

(* ------------------------------- state --------------------------------- *)
VARIABLES
    env,                    \* the bounds of the specification at hand
    clock,                  \* Date.now()
    \* HandLandmarkDetector
    isReady,
    resolverRef,            \* the call whose resolver is stored, 0 for null
    calls,                  \* every detect() promise: state, awaiting caller, issue time
    timeouts,               \* calls whose 15 s setTimeout has not fired yet
    inflight,               \* calls whose processImage the WebView has not answered
    sent,                   \* history: processImage injections made for each call
    nextCall,
    lastSettle,             \* history: the settlement made by the step just taken
    lastVerdict,            \* history: the duplicate filter's verdict in the step just taken
    lastResult,             \* history: the classifier's result consumed by the step just taken
    lastTap,                \* history: the sentence button whose handler the step just taken ran
    \* TSLCameraScreen
    isDetectorReady,
    autoMode,
    autoModeRef,
    prevLandmarksRef,
    stableCountRef,
    lastAcceptedLetterRef,
    lastAcceptedTimeRef,
    isCapturing,
    sentence,               \* the state, with every queued update applied
    renderedSentence,       \* the value the handlers of the last render closed over
    chains,                 \* loop chains started by the auto-capture effect
    current,                \* chain of the effect whose cleanup has not run, 0 for none
    nextChain,
    manual,                 \* handleCapture's position
    manualDetection,        \* handleCapture's detection
    heldPose,               \* history: pose of the last frame the stability machine saw
    heldSubmits,            \* history: classifier calls since heldPose last changed
    heldAgainst,            \* history: the previous pose that frame was compared with
    \* VideoProcessingService (one instance for the application)
    frameCount,
    lastProcessTime,
    isProcessing,
    \* CameraScreen (real-time detection)
    processingIntervalRef,  \* time the interval's next callback is due, NoInterval for null
    frames,                 \* processVideoFrame cycles awaiting the classifier
    nextStart,              \* history: runs of startRealTimeDetection so far, plus one
    lastVideo,              \* history: the service call or cycle end of the step just taken
    history,                \* the letters of the prediction history items, oldest first
    lastPredictionRef,
    \* ApiService.predictSignWithRetry
    retry,                  \* the position and the locals of the one call made of it
    attempts,               \* history: the predictSign invocations that call has made
    \* landmarkDistance
    measure,                \* history: the arguments and the result of the last call
    \* HandDetectionService (one instance for the application)
    detector,               \* the number of the detector held, 0 for null
    created,                \* history: detectors created so far
    isInitialized,
    isInitializing,
    loads,                  \* the await each initialize() within its try block is at
    estimates,              \* detectHands() calls awaiting estimateHands
    lastHandCall            \* history: the call or the resumption of the step just taken

bridgeVars == <<isReady, resolverRef, calls, timeouts, inflight, sent, nextCall, lastSettle,
                lastVerdict, lastResult, lastTap>>
trackingVars == <<prevLandmarksRef, stableCountRef, lastAcceptedLetterRef, lastAcceptedTimeRef>>
historyVars == <<heldPose, heldSubmits, heldAgainst>>
screenVars == <<isDetectorReady, autoMode, autoModeRef, trackingVars, isCapturing,
                sentence, renderedSentence, chains, current, nextChain, manual, manualDetection,
                historyVars>>
predictionVars == <<history, lastPredictionRef>>
videoVars == <<frameCount, lastProcessTime, isProcessing, processingIntervalRef, frames,
               nextStart, lastVideo, predictionVars>>
\* what the TSL camera screen and its detector never touch
retryVars == <<retry, attempts>>
handVars == <<detector, created, isInitialized, isInitializing, loads, estimates, lastHandCall>>
otherVars == <<measure, handVars>>
elsewhere == <<videoVars, retryVars, otherVars>>
vars == <<env, clock, bridgeVars, screenVars, elsewhere>>

CallIds == 1..env.calls
ChainIds == 1..env.runs

NoCall == [st |-> "none", owner |-> 0, at |-> 0]
NoSettle == [call |-> 0, by |-> "none", src |-> 0, elapsed |-> 0, msg |-> "none",
             value |-> "none", onError |-> FALSE]
NoVerdict == [letter |-> "", now |-> 0, accepted |-> FALSE]
NoResult == [path |-> "none", letter |-> "", error |-> FALSE, kind |-> "none"]
NoTap == "none"
NoChain == [pc |-> "none", due |-> 0, det |-> "null", stale |-> FALSE]

NoInterval == 0 - 1
\* (for shouldProcessFrame: its result and the service's fields at its return;
\* for processVideoFrame: its exit, the classifier's letter and the number of
\* history items it dropped)
NoVideoStep == [op |-> "none", due |-> 0, result |-> FALSE, frameCount |-> 0,
                isProcessing |-> FALSE, lastProcessTime |-> 0, path |-> "none",
                letter |-> "", dropped |-> 0]

\* error texts are sequences of the pieces they are put together from; the
\* empty sequence is the absent (or empty) error
NoError == <<>>
NoReturn == [threw |-> FALSE, letter |-> "", error |-> NoError]
NotCalled == [pc |-> "idle", maxAttempts |-> 0, malformed |-> FALSE, attempt |-> 0,
              lastError |-> NoError, due |-> 0, result |-> NoReturn,
              waits |-> <<>>]      \* history: the delays of the backoffs begun

NoMeasure == [a |-> <<>>, b |-> <<>>, called |-> FALSE, dist |-> 0]

\* (op: the method called, or the await it resumed from; started: initialize()
\* went on to load; failed: the load failed; detected: the `detected` of the
\* result returned; threw: the promise returned was rejected)
NoHandCall == [op |-> "none", started |-> FALSE, failed |-> FALSE, returned |-> FALSE,
               detected |-> FALSE, threw |-> FALSE]

\* the services and the real-time screen before any detection has started
Loaded ==
    /\ frameCount = 0
    /\ lastProcessTime = 0
    /\ isProcessing = FALSE
    /\ processingIntervalRef = NoInterval
    /\ frames = 0
    /\ nextStart = 1
    /\ lastVideo = NoVideoStep
    /\ retry = NotCalled
    /\ attempts = <<>>
    /\ measure = NoMeasure
    /\ detector = 0
    /\ created = 0
    /\ isInitialized = FALSE
    /\ isInitializing = FALSE
    /\ loads = <<>>
    /\ estimates = 0
    /\ lastHandCall = NoHandCall

\* the state after the screens have mounted, but for the prediction history
Idle ==
    /\ Loaded
    /\ clock = 0
    /\ isReady = FALSE
    /\ resolverRef = 0
    /\ calls = [c \in CallIds |-> NoCall]
    /\ timeouts = {}
    /\ inflight = {}
    /\ sent = [c \in CallIds |-> 0]
    /\ nextCall = 1
    /\ lastSettle = NoSettle
    /\ lastVerdict = NoVerdict
    /\ lastResult = NoResult
    /\ lastTap = NoTap
    /\ isDetectorReady = FALSE
    /\ autoMode = FALSE
    /\ autoModeRef = FALSE
    /\ prevLandmarksRef = "null"
    /\ stableCountRef = 0
    /\ lastAcceptedLetterRef = ""
    /\ lastAcceptedTimeRef = 0
    /\ isCapturing = FALSE
    /\ sentence = <<>>
    /\ renderedSentence = <<>>
    /\ chains = [k \in ChainIds |-> NoChain]
    /\ current = 0
    /\ nextChain = 1
    /\ manual = "idle"
    /\ manualDetection = "null"
    /\ heldPose = "null"
    /\ heldSubmits = 0
    /\ heldAgainst = "null"

\* the state after the screens have mounted
Mounted ==
    /\ Idle
    /\ history = <<>>
    /\ lastPredictionRef = ""

(* ---------------------- HandLandmarkDetector --------------------------- *)
\* The model issues a call only while a call id is left and the call's timeout
\* comes due before the clock stops.
CanIssue == nextCall <= env.calls /\ clock <= env.active

\* webViewRef.current?.injectJavaScript(processImage(...)) for call c, with
\* twice the injections
ProcessImageTwice(c) ==
    /\ inflight' = inflight \cup {c}
    /\ sent' = [sent EXCEPT ![c] = @ + 2]

\* webViewRef.current?.injectJavaScript(processImage(...)) for call c
ProcessImage(c) ==
    /\ inflight' = inflight \cup {c}
    /\ sent' = [sent EXCEPT ![c] = @ + 1]

\* detectFromBase64 once isReady holds: store the resolver (over whatever is
\* stored), start the 15 s timer, inject processImage.
DetectFromBase64(owner) ==
    /\ resolverRef' = nextCall
    /\ calls' = [calls EXCEPT ![nextCall] =
                    [st |-> "pending", owner |-> owner, at |-> clock]]
    /\ timeouts' = timeouts \cup {nextCall}
    /\ ProcessImage(nextCall)
    /\ nextCall' = nextCall + 1
    /\ isReady' = isReady
    /\ lastSettle' = NoSettle /\ lastVerdict' = NoVerdict /\ lastResult' = NoResult /\ lastTap' = NoTap

\* A call's issue time is kept while its timer or the call itself is pending.
KeepAt(c, st, timers) == IF st = "pending" \/ c \in timers THEN calls[c].at ELSE 0

\* resolverRef.current?.resolve(value); resolverRef.current = null
\* (timers: the timers still pending after this step)
ResolveStored(timers) ==
    /\ resolverRef' = 0
    /\ calls' = [c \in CallIds |->
                    IF c = resolverRef
                    THEN [st |-> "resolved", owner |-> 0, at |-> KeepAt(c, "resolved", timers)]
                    ELSE [calls[c] EXCEPT !.at = KeepAt(c, calls[c].st, timers)]]

\* the guard of detectFromBase64, always passed
NeverNotReady == FALSE

\* the guard of detectFromBase64: if (!isReady)
NotReady == ~isReady

\* reject(new Error('Detector not ready')); return
RejectNotReady ==
    /\ calls' = [calls EXCEPT ![nextCall] = [st |-> "rejected", owner |-> 0, at |-> 0]]
    /\ nextCall' = nextCall + 1
    /\ lastSettle' = NoSettle /\ lastVerdict' = NoVerdict /\ lastResult' = NoResult /\ lastTap' = NoTap
    /\ UNCHANGED <<isReady, resolverRef, timeouts, inflight, sent>>

\* the whole of detectFromBase64
Detect(owner) == IF NotReady THEN RejectNotReady ELSE DetectFromBase64(owner)

\* a caller of the imperative handle other than the TSL camera screen
Client == 0 - 1

Settlement(by, src) ==
    IF resolverRef = 0 THEN NoSettle
    ELSE [call |-> resolverRef, by |-> by, src |-> src,
          elapsed |-> clock - calls[resolverRef].at, msg |-> "none", value |-> "null",
          onError |-> FALSE]

(* --------------------------- TSLCameraScreen --------------------------- *)
EndsWithSpace(s) == Len(s) > 0 /\ s[Len(s)] = " "

\* the loop's code after `await runSingleAutoCapture()`
AfterCycle ==
    IF autoModeRef
    THEN [pc |-> "timer", due |-> clock + AUTO_CAPTURE_INTERVAL, det |-> "null", stale |-> FALSE]
    ELSE NoChain

\* the stability machine without its pose-change test
StabilityWithoutPoseTest(v) ==
    IF v = "null" THEN "NoHand"
    ELSE IF prevLandmarksRef = "null" THEN "FirstPose"
    ELSE IF stableCountRef + 1 < STABILITY_FRAMES THEN "Stabilizing"
    ELSE "ReadyToSubmit"

\* a stability machine that takes a missing hand for a first pose
StabilityCountingNoHand(v) ==
    IF v = "null" \/ prevLandmarksRef = "null" THEN "FirstPose"
    ELSE IF Distance[v, prevLandmarksRef] > POSE_CHANGE_THRESHOLD
         THEN "PoseChanged"
    ELSE IF stableCountRef + 1 < STABILITY_FRAMES THEN "Stabilizing"
    ELSE "ReadyToSubmit"

\* a stability machine that goes on counting a held pose
StabilityNeverSubmits(v) ==
    IF v = "null" THEN "NoHand"
    ELSE IF prevLandmarksRef = "null" THEN "FirstPose"
    ELSE IF Distance[v, prevLandmarksRef] > POSE_CHANGE_THRESHOLD
         THEN "PoseChanged"
    ELSE "Stabilizing"

\* a stability machine for which a distance of just the threshold is a change
StabilityThresholdInclusive(v) ==
    IF v = "null" THEN "NoHand"
    ELSE IF prevLandmarksRef = "null" THEN "FirstPose"
    ELSE IF Distance[v, prevLandmarksRef] >= POSE_CHANGE_THRESHOLD
         THEN "PoseChanged"
    ELSE IF stableCountRef + 1 < STABILITY_FRAMES THEN "Stabilizing"
    ELSE "ReadyToSubmit"

\* runSingleAutoCapture between the detector's answer and the classifier call
StabilityOutcome(v) ==
    IF v = "null" THEN "NoHand"
    ELSE IF prevLandmarksRef = "null" THEN "FirstPose"
    ELSE IF Distance[v, prevLandmarksRef] > POSE_CHANGE_THRESHOLD
         THEN "PoseChanged"
    ELSE IF stableCountRef + 1 < STABILITY_FRAMES THEN "Stabilizing"
    ELSE "ReadyToSubmit"

\* a duplicate filter whose window is closed at its end
IsDuplicateInclusive(letter, now) ==
    /\ letter = lastAcceptedLetterRef
    /\ now - lastAcceptedTimeRef <= DUPLICATE_LETTER_COOLDOWN

\* the duplicate filter of runSingleAutoCapture
IsDuplicate(letter, now) ==
    /\ letter = lastAcceptedLetterRef
    /\ now - lastAcceptedTimeRef < DUPLICATE_LETTER_COOLDOWN

\* landmarksToApiFormat throws in predictSign exactly on the landmarks that
\* validateLandmarks refuses
Formats(resp, pose) ==
    resp.kind = "malformed_input" <=> ~validateLandmarks(Landmarks(pose))

\* the checks without the one for an error
ActionableDespiteError(resp) == resp.letter # "" /\ resp.letter # "Unknown"

Actionable(resp) == ~resp.error /\ resp.letter # "" /\ resp.letter # "Unknown"

\* a cycle that compares the next frame with the frame it has just seen
ComparedNextIsLastFrame(o, v) == IF o = "NoHand" THEN "null" ELSE v

\* prevLandmarksRef as the cycle with outcome o leaves it
ComparedNext(o, v) ==
    CASE o = "NoHand" -> "null"
      [] o \in {"FirstPose", "PoseChanged"} -> v
      [] OTHER -> prevLandmarksRef

\* runSingleAutoCapture resumed with the detector's answer v
AutoAfterDetect(k, v) ==
    LET o == StabilityOutcome(v) IN
    /\ UNCHANGED <<isDetectorReady, autoMode, autoModeRef, isCapturing, sentence,
                   renderedSentence, current, nextChain, manual, manualDetection,
                   lastAcceptedLetterRef, lastAcceptedTimeRef>>
    /\ IF ~autoModeRef
       THEN /\ chains' = [chains EXCEPT ![k] = AfterCycle]
            /\ UNCHANGED <<prevLandmarksRef, stableCountRef, historyVars>>
       ELSE /\ prevLandmarksRef' = ComparedNext(o, v)
            /\ stableCountRef' =
                  CASE o = "NoHand" -> 0
                    [] o \in {"FirstPose", "PoseChanged"} -> 1
                    [] o = "Stabilizing" -> stableCountRef + 1
                    [] OTHER -> 0
            /\ chains' = [chains EXCEPT ![k] =
                  IF o = "ReadyToSubmit"
                  THEN [pc |-> "classify", due |-> 0, det |-> v, stale |-> chains[k].stale]
                  ELSE AfterCycle]
            /\ heldPose' = v
            /\ heldAgainst' = prevLandmarksRef
            /\ heldSubmits' = (IF v = heldPose /\ v # "null" THEN heldSubmits ELSE 0)
                                + (IF o = "ReadyToSubmit" THEN 1 ELSE 0)

\* handleCapture going on to the classifier only with a pose held stable
ManualSubmitsWhenStable(v) == StabilityOutcome(v) = "ReadyToSubmit"

\* handleCapture going on to the classifier: if (!detection) ... return
ManualSubmits(v) == v # "null"

\* handleCapture appending only what the duplicate filter lets through
ManualAcceptsFiltered(resp) == Actionable(resp) /\ ~IsDuplicate(resp.letter, clock)

\* handleCapture appending: no response.error, letter && letter !== 'Unknown'
ManualAccepts(resp) == Actionable(resp)

\* handleCapture's finally block
ManualFinally == isCapturing' = FALSE /\ manual' = "idle" /\ manualDetection' = "null"

\* handleCapture resumed with the detector's answer v
ManualAfterDetect(v) ==
    /\ UNCHANGED <<isDetectorReady, autoMode, autoModeRef, trackingVars, sentence,
                   renderedSentence, chains, current, nextChain, historyVars>>
    /\ IF ManualSubmits(v)
       THEN isCapturing' = isCapturing /\ manual' = "classify" /\ manualDetection' = v
       ELSE ManualFinally

\* the continuation awaiting the call that was just resolved with v
Resume(owner, v) ==
    IF owner = Client THEN UNCHANGED screenVars
    ELSE IF owner = 0 THEN ManualAfterDetect(v) ELSE AutoAfterDetect(owner, v)

(* ------------------- HandLandmarkDetector: events ---------------------- *)
\* the WebView's 'ready' message
HandleReady ==
    /\ ~isReady
    /\ isReady' = TRUE
    /\ isDetectorReady' = TRUE
    /\ lastSettle' = NoSettle /\ lastVerdict' = NoVerdict /\ lastResult' = NoResult /\ lastTap' = NoTap
    /\ UNCHANGED <<env, elsewhere, clock, resolverRef, calls, timeouts, inflight, sent, nextCall>>
    /\ UNCHANGED <<autoMode, autoModeRef, trackingVars, isCapturing, sentence,
                   renderedSentence, chains, current, nextChain, manual, manualDetection, historyVars>>

\* the callback of the setTimeout started by call c
TimeoutFire(c) ==
    /\ c \in timeouts
    /\ clock >= calls[c].at + DETECT_TIMEOUT
    /\ timeouts' = timeouts \ {c}
    /\ lastSettle' = Settlement("timeout", c) /\ lastVerdict' = NoVerdict /\ lastResult' = NoResult /\ lastTap' = NoTap
    /\ UNCHANGED <<env, elsewhere, clock, isReady, inflight, sent, nextCall>>
    /\ IF resolverRef # 0
       THEN ResolveStored(timeouts') /\ Resume(calls[resolverRef].owner, "null")
       ELSE /\ resolverRef' = resolverRef
            /\ calls' = [x \in CallIds |-> [calls[x] EXCEPT !.at = KeepAt(x, calls[x].st, timeouts')]]
            /\ UNCHANGED screenVars

MessageTypes == {"landmarks", "no_hand", "error"}

\* no message type reports to onError
OnErrorNever(type) == FALSE

\* case 'error': onError?.(data.message)
OnError(type) == type = "error"

\* the value handleMessage resolves the stored resolver with
Resolution(type, pose) == IF type = "landmarks" THEN pose ELSE "null"

\* handleMessage with the WebView's answer to the processImage of call c
HandleMessage(c, type, pose) ==
    /\ c \in inflight
    /\ inflight' = inflight \ {c}
    /\ lastSettle' = [Settlement(type, c) EXCEPT
                          !.msg = type,
                          !.value = IF resolverRef = 0 THEN "none" ELSE Resolution(type, pose),
                          !.onError = OnError(type)]
    /\ lastVerdict' = NoVerdict /\ lastResult' = NoResult /\ lastTap' = NoTap
    /\ UNCHANGED <<env, elsewhere, clock, isReady, timeouts, sent, nextCall>>
    /\ IF resolverRef # 0
       THEN /\ ResolveStored(timeouts)
            /\ Resume(calls[resolverRef].owner, Resolution(type, pose))
       ELSE UNCHANGED <<resolverRef, calls>> /\ UNCHANGED screenVars

\* ref.current.detectFromBase64(base64) called through the imperative handle
\* by a caller that does not wait for onReady
ClientDetect ==
    /\ CanIssue
    /\ Detect(Client)
    /\ UNCHANGED <<env, elsewhere, clock, screenVars>>

(* ---------------------- TSLCameraScreen: events ------------------------ *)
\* handleCapture up to takePictureAsync; the capture button is rendered only
\* while autoMode is off and is disabled while isCapturing
HandleCapture ==
    /\ ~autoMode /\ ~isCapturing /\ isDetectorReady
    /\ isCapturing' = TRUE
    /\ manual' = "camera" /\ manualDetection' = manualDetection
    /\ renderedSentence' = sentence
    /\ lastSettle' = NoSettle /\ lastVerdict' = NoVerdict /\ lastResult' = NoResult /\ lastTap' = NoTap
    /\ UNCHANGED <<env, elsewhere, clock, isReady, resolverRef, calls, timeouts, inflight, sent, nextCall>>
    /\ UNCHANGED <<isDetectorReady, autoMode, autoModeRef, trackingVars, sentence,
                   chains, current, nextChain, historyVars>>

\* handleCapture resumed with the photo
ManualCameraDone(photo) ==
    /\ manual = "camera"
    /\ UNCHANGED <<env, elsewhere, clock, isDetectorReady, autoMode, autoModeRef, trackingVars, sentence,
                   renderedSentence, chains, current, nextChain, historyVars>>
    /\ IF photo
       THEN /\ CanIssue
            /\ DetectFromBase64(0)
            /\ isCapturing' = isCapturing /\ manual' = "detect"
            /\ manualDetection' = manualDetection
       ELSE /\ ManualFinally
            /\ lastSettle' = NoSettle /\ lastVerdict' = NoVerdict /\ lastResult' = NoResult /\ lastTap' = NoTap
            /\ UNCHANGED <<isReady, resolverRef, calls, timeouts, inflight, sent, nextCall>>

\* handleCapture resumed with the classifier's response
ManualClassifyDone(resp) ==
    /\ manual = "classify"
    /\ Formats(resp, manualDetection)
    /\ sentence' = IF ManualAccepts(resp) THEN Append(sentence, resp.letter) ELSE sentence
    /\ ManualFinally
    /\ lastSettle' = NoSettle /\ lastVerdict' = NoVerdict
    /\ lastResult' = [path |-> "manual", letter |-> resp.letter, error |-> resp.error,
                      kind |-> resp.kind]
    /\ lastTap' = NoTap
    /\ UNCHANGED <<env, elsewhere, clock, isReady, resolverRef, calls, timeouts, inflight, sent, nextCall>>
    /\ UNCHANGED <<isDetectorReady, autoMode, autoModeRef, trackingVars,
                   renderedSentence, chains, current, nextChain, historyVars>>

\* the effect's cleanup: clearTimeout(timer) of the chain the effect started
Cleanup(ch) ==
    [k \in ChainIds |-> IF k = current /\ ch[k].pc = "timer" THEN NoChain ELSE ch[k]]

\* the effect's body when autoMode and isDetectorReady hold: loop() up to
\* takePictureAsync
StartChain(ch) ==
    [ch EXCEPT ![nextChain] = [pc |-> "camera", due |-> 0, det |-> "null", stale |-> FALSE]]

MidCycle(c) == c.pc \in {"camera", "detect", "classify"}

\* a tap on the auto-detect toggle (or on Stop), the render and the effect
ToggleAutoMode ==
    /\ isDetectorReady
    /\ autoMode \/ nextChain <= env.runs
    /\ autoMode' = ~autoMode
    /\ autoModeRef' = ~autoMode
    /\ IF autoMode
       THEN /\ prevLandmarksRef' = "null"
            /\ stableCountRef' = 0
            /\ lastAcceptedLetterRef' = ""
            /\ chains' = [k \in ChainIds |->
                            IF MidCycle(Cleanup(chains)[k])
                            THEN [chains[k] EXCEPT !.stale = TRUE]
                            ELSE Cleanup(chains)[k]]
            /\ current' = 0
            /\ nextChain' = nextChain
            /\ heldPose' = "null"
            /\ heldSubmits' = 0
            /\ heldAgainst' = "null"
       ELSE /\ chains' = StartChain(Cleanup(chains))
            /\ current' = nextChain
            /\ nextChain' = nextChain + 1
            /\ UNCHANGED <<prevLandmarksRef, stableCountRef, lastAcceptedLetterRef,
                           historyVars>>
    /\ renderedSentence' = sentence
    /\ lastSettle' = NoSettle /\ lastVerdict' = NoVerdict /\ lastResult' = NoResult /\ lastTap' = NoTap
    /\ UNCHANGED <<env, elsewhere, clock, isReady, resolverRef, calls, timeouts, inflight, sent, nextCall>>
    /\ UNCHANGED <<isDetectorReady, lastAcceptedTimeRef, isCapturing, sentence, manual, manualDetection>>

\* a tap on the sound toggle while the loop effect is active: runSingleAutoCapture
\* is recreated, so the effect is cleaned up and run again
ToggleSpeech ==
    /\ autoMode /\ isDetectorReady
    /\ nextChain <= env.runs
    /\ chains' = StartChain(Cleanup(chains))
    /\ current' = nextChain
    /\ nextChain' = nextChain + 1
    /\ renderedSentence' = sentence
    /\ lastSettle' = NoSettle /\ lastVerdict' = NoVerdict /\ lastResult' = NoResult /\ lastTap' = NoTap
    /\ UNCHANGED <<env, elsewhere, clock, isReady, resolverRef, calls, timeouts, inflight, sent, nextCall>>
    /\ UNCHANGED <<isDetectorReady, autoMode, autoModeRef, trackingVars, isCapturing,
                   sentence, manual, manualDetection, historyVars>>

\* the loop's setTimeout callback: loop() up to takePictureAsync
LoopTimerFire(k) ==
    /\ chains[k].pc = "timer"
    /\ clock >= chains[k].due
    /\ chains' = [chains EXCEPT ![k] =
                    IF autoModeRef
                    THEN [pc |-> "camera", due |-> 0, det |-> "null", stale |-> FALSE]
                    ELSE NoChain]
    /\ lastSettle' = NoSettle /\ lastVerdict' = NoVerdict /\ lastResult' = NoResult /\ lastTap' = NoTap
    /\ UNCHANGED <<env, elsewhere, clock, isReady, resolverRef, calls, timeouts, inflight, sent, nextCall>>
    /\ UNCHANGED <<isDetectorReady, autoMode, autoModeRef, trackingVars, isCapturing,
                   sentence, renderedSentence, current, nextChain, manual, manualDetection, historyVars>>

\* runSingleAutoCapture resumed with the photo
AutoCameraDone(k, photo) ==
    /\ chains[k].pc = "camera"
    /\ UNCHANGED <<env, elsewhere, clock, isDetectorReady, autoMode, autoModeRef, trackingVars, isCapturing,
                   sentence, renderedSentence, current, nextChain, manual, manualDetection, historyVars>>
    /\ IF photo /\ autoModeRef
       THEN /\ CanIssue
            /\ DetectFromBase64(k)
            /\ chains' = [chains EXCEPT ![k].pc = "detect"]
       ELSE /\ chains' = [chains EXCEPT ![k] = AfterCycle]
            /\ lastSettle' = NoSettle /\ lastVerdict' = NoVerdict /\ lastResult' = NoResult /\ lastTap' = NoTap
            /\ UNCHANGED <<isReady, resolverRef, calls, timeouts, inflight, sent, nextCall>>

\* a cycle that begins the cooldown window anew when it does not accept
NotAcceptedRestartsWindow ==
    /\ lastAcceptedTimeRef' = clock
    /\ UNCHANGED <<lastAcceptedLetterRef, prevLandmarksRef, sentence>>

\* the returns of runSingleAutoCapture after the classifier's response
NotAccepted ==
    UNCHANGED <<lastAcceptedLetterRef, lastAcceptedTimeRef, prevLandmarksRef, sentence>>

\* runSingleAutoCapture resumed with the classifier's response
AutoClassifyDone(k, resp) ==
    LET accepted == /\ autoModeRef
                    /\ Actionable(resp)
                    /\ ~IsDuplicate(resp.letter, clock)
    IN
    /\ chains[k].pc = "classify"
    /\ Formats(resp, chains[k].det)
    /\ chains' = [chains EXCEPT ![k] = AfterCycle]
    /\ IF accepted
       THEN /\ lastAcceptedLetterRef' = resp.letter
            /\ lastAcceptedTimeRef' = clock
            /\ prevLandmarksRef' = chains[k].det
            /\ sentence' = Append(sentence, resp.letter)
       ELSE NotAccepted
    /\ lastSettle' = NoSettle
    /\ lastVerdict' = IF autoModeRef /\ Actionable(resp)
                      THEN [letter |-> resp.letter, now |-> clock, accepted |-> accepted]
                      ELSE NoVerdict
    /\ lastResult' = [path |-> "auto", letter |-> resp.letter, error |-> resp.error,
                      kind |-> resp.kind]
    /\ lastTap' = NoTap
    /\ UNCHANGED <<env, elsewhere, clock, isReady, resolverRef, calls, timeouts, inflight, sent, nextCall>>
    /\ UNCHANGED <<isDetectorReady, autoMode, autoModeRef, stableCountRef, isCapturing,
                   renderedSentence, current, nextChain, manual, manualDetection, historyVars>>

\* what a sentence button's handler leaves unchanged besides the sentence
TapFrame(button) ==
    /\ lastSettle' = NoSettle /\ lastVerdict' = NoVerdict /\ lastResult' = NoResult
    /\ lastTap' = button
    /\ UNCHANGED <<env, elsewhere, clock, isReady, resolverRef, calls, timeouts, inflight, sent, nextCall>>
    /\ UNCHANGED <<isDetectorReady, autoMode, autoModeRef, trackingVars, isCapturing,
                   chains, current, nextChain, manual, manualDetection, historyVars>>

\* a handler that returned before any setSentence: no update, no render
Returned == sentence' = sentence /\ renderedSentence' = renderedSentence

\* handleSpace: the guards read the rendered sentence, the update is applied to
\* the latest one; the tap's own update is rendered before the next event
SpaceAllowedAfterAnything(s) == Len(s) # 0

\* a handleSpace without its test for the empty sentence
SpaceAllowedOnEmpty(s) == ~EndsWithSpace(s)

SpaceAllowed(s) == Len(s) # 0 /\ ~EndsWithSpace(s)

HandleSpace ==
    /\ Len(sentence) < env.space
    /\ IF SpaceAllowed(renderedSentence)
       THEN sentence' = Append(sentence, " ") /\ renderedSentence' = sentence'
       ELSE Returned
    /\ TapFrame("space")

\* prev.slice(0, -1)
DropLast(s) == IF Len(s) = 0 THEN s ELSE SubSeq(s, 1, Len(s) - 1)

HandleBackspace ==
    /\ IF Len(renderedSentence) # 0
       THEN sentence' = DropLast(sentence) /\ renderedSentence' = sentence'
       ELSE Returned
    /\ TapFrame("backspace")

HandleClear ==
    /\ sentence' = <<>>
    /\ renderedSentence' = sentence'
    /\ TapFrame("clear")

\* the render that follows an update made by a promise continuation
Render ==
    /\ renderedSentence # sentence
    /\ renderedSentence' = sentence
    /\ lastSettle' = NoSettle /\ lastVerdict' = NoVerdict /\ lastResult' = NoResult /\ lastTap' = NoTap
    /\ UNCHANGED <<env, elsewhere, clock, isReady, resolverRef, calls, timeouts, inflight, sent, nextCall>>
    /\ UNCHANGED <<isDetectorReady, autoMode, autoModeRef, trackingVars, isCapturing,
                   sentence, chains, current, nextChain, manual, manualDetection, historyVars>>

\* time passes
Tick ==
    /\ clock < env.horizon
    /\ clock' = clock + env.step
    /\ lastSettle' = NoSettle /\ lastVerdict' = NoVerdict /\ lastResult' = NoResult /\ lastTap' = NoTap
    /\ UNCHANGED <<env, elsewhere, isReady, resolverRef, calls, timeouts, inflight, sent, nextCall>>
    /\ UNCHANGED screenVars

(* ------------- VideoProcessingService and CameraScreen ----------------- *)
\* DEFAULT_VIDEO_CONFIG
FRAME_SKIP == 3
MIN_FRAME_INTERVAL == 100
\* the items processVideoFrame keeps in the prediction history
HISTORY_LIMIT == 20

\* Date.now(): the clock counts from the mount of the screen, long after 1970
Epoch == 1000 * 1000 * 1000
DateNow == Epoch + clock

\* the throttle without its frame skip
PassesThrottleEveryFrame(count) == ~(DateNow - lastProcessTime < MIN_FRAME_INTERVAL)

\* shouldProcessFrame with enableThrottling, its result once frameCount was
\* incremented to count
PassesThrottle(count) ==
    /\ count % FRAME_SKIP = 0
    /\ ~(DateNow - lastProcessTime < MIN_FRAME_INTERVAL)

\* shouldProcessFrame: its result and the fields of the service at its return
shouldProcessFrame ==
    IF isProcessing
    THEN [result |-> FALSE, frameCount |-> frameCount, isProcessing |-> isProcessing,
          lastProcessTime |-> lastProcessTime]
    ELSE [result |-> PassesThrottle(frameCount + 1), frameCount |-> frameCount + 1,
          isProcessing |-> isProcessing, lastProcessTime |-> lastProcessTime]

\* VideoProcessingService.reset
Reset ==
    /\ frameCount' = 0
    /\ lastProcessTime' = 0
    /\ isProcessing' = FALSE

\* the [permission] effect of CameraScreen: its cleanup (stopRealTimeDetection)
\* and, when the permission is granted, startRealTimeDetection
PermissionChange(granted) ==
    /\ nextStart <= VideoStarts
    /\ Reset
    /\ IF granted
       THEN processingIntervalRef' = clock + MIN_FRAME_INTERVAL /\ nextStart' = nextStart + 1
       ELSE processingIntervalRef' = NoInterval /\ nextStart' = nextStart
    /\ lastVideo' = NoVideoStep
    /\ UNCHANGED <<env, clock, bridgeVars, screenVars, retryVars, otherVars, frames,
                   predictionVars>>

\* the setInterval callback: shouldProcessFrame, then processVideoFrame up to
\* its await of predictSign (startProcessing)
IntervalFire ==
    /\ processingIntervalRef # NoInterval
    /\ clock >= processingIntervalRef
    /\ processingIntervalRef' = processingIntervalRef + MIN_FRAME_INTERVAL
    /\ LET r == shouldProcessFrame IN
        /\ frameCount' = r.frameCount
        /\ lastVideo' = [op |-> "shouldProcessFrame", due |-> processingIntervalRef,
                         result |-> r.result, frameCount |-> r.frameCount,
                         isProcessing |-> r.isProcessing,
                         lastProcessTime |-> r.lastProcessTime, path |-> "none",
                         letter |-> "", dropped |-> 0]
        /\ IF r.result
           THEN /\ isProcessing' = TRUE
                /\ lastProcessTime' = DateNow
                /\ frames' = frames + 1
           ELSE /\ isProcessing' = r.isProcessing
                /\ lastProcessTime' = r.lastProcessTime
                /\ frames' = frames
    /\ UNCHANGED <<env, clock, bridgeVars, screenVars, retryVars, otherVars, nextStart,
                   predictionVars>>

\* processVideoFrame without its finally block
NoFinally == isProcessing' = isProcessing

\* the finally block of processVideoFrame: endProcessing
Finally == isProcessing' = FALSE

\* the way processVideoFrame leaves its try block: by the return of the
\* error branch, by an exception, or at its end
ExitPath(resp, throws) ==
    IF throws THEN "throw" ELSE IF resp.error THEN "error" ELSE "normal"

\* slice(-n)
Slice(s, n) == IF Len(s) <= n THEN s ELSE SubSeq(s, Len(s) - n + 1, Len(s))

\* a processVideoFrame that records every letter
ChangedAlways(letter) == TRUE

\* `response.letter !== lastPredictionRef.current`
Changed(letter) == letter # lastPredictionRef

\* processVideoFrame resumed with the classifier's response, to its end; the
\* error branch calls endProcessing itself before it returns
FrameDone(resp, throws) ==
    /\ frames > 0
    /\ frames' = frames - 1
    /\ IF ExitPath(resp, throws) = "normal" /\ resp.letter # "" /\ Changed(resp.letter)
       THEN /\ lastPredictionRef' = resp.letter
            /\ history' = Slice(Append(history, resp.letter), HISTORY_LIMIT)
       ELSE UNCHANGED predictionVars
    /\ IF ExitPath(resp, throws) = "error" THEN isProcessing' = FALSE ELSE Finally
    /\ lastVideo' = [NoVideoStep EXCEPT !.op = "processVideoFrame",
                                        !.path = ExitPath(resp, throws),
                                        !.letter = resp.letter,
                                        !.dropped = Len(history) + 1 - Len(history')]
    /\ UNCHANGED <<env, clock, bridgeVars, screenVars, retryVars, otherVars, frameCount, lastProcessTime,
                   processingIntervalRef, nextStart>>

\* handleClear of CameraScreen
HandleClearHistory ==
    /\ history' = <<>>
    /\ lastPredictionRef' = ""
    /\ lastVideo' = [NoVideoStep EXCEPT !.op = "handleClear"]
    /\ UNCHANGED <<env, clock, bridgeVars, screenVars, retryVars, otherVars, frameCount,
                   lastProcessTime, isProcessing, processingIntervalRef, frames, nextStart>>

(* ------------------------------ ApiService ----------------------------- *)
\* API_CONFIG
RETRY_ATTEMPTS == 3
RETRY_DELAY == 1000

\* what one POST /predict comes to: a 2xx response with a body, a response
\* with an error status, no response, landmarks that landmarksToApiFormat
\* throws on, or any other exception
Statuses == {"404", "500"}
BodyErrors == {NoError, <<"Hand not clear">>, <<"Internal ", "Server error">>}
Bodies == [letter : Letters \cup {"", "Unknown"}, error : BodyErrors]
NoBody == [letter |-> "", error |-> NoError]
Outcomes ==
    [kind : {"ok"}, status : {"200"}, body : Bodies]
        \cup [kind : {"status"}, status : Statuses, body : {NoBody}]
        \cup [kind : {"no_response", "malformed_input", "other"}, status : {""}, body : {NoBody}]

\* the last return of predictSign's catch block, as a throw
FallbackThrows == [threw |-> TRUE, letter |-> "", error |-> NoError]

\* the last return of predictSign's catch block
Fallback == [threw |-> FALSE, letter |-> "", error |-> <<"Failed to predict sign. Please try again.">>]

predictSign(o) ==
    IF o.kind = "ok"
    THEN [threw |-> FALSE, letter |-> o.body.letter, error |-> o.body.error]
    ELSE IF o.kind = "status"
    THEN [threw |-> FALSE, letter |-> "",
          error |-> <<"Server error", ": ", o.status, " - ">>]
    ELSE IF o.kind = "no_response"
    THEN [threw |-> FALSE, letter |-> "",
          error |-> <<"No response from server. Check your internet connection.">>]
    ELSE Fallback

\* what a capture cycle reads of the awaited predictSign: response.letter and
\* whether response.error is truthy (kind: history, what the POST came to)
ScreenResult(o) ==
    [letter |-> predictSign(o).letter, error |-> predictSign(o).error # NoError,
     kind |-> o.kind]

\* the classifier's results as the camera screens see them
Responses == {ScreenResult(o) : o \in Outcomes}

\* String.prototype.includes, on the pieces of a text
Includes(text, piece) == \E i \in DOMAIN text : text[i] = piece

\* the backoff, without its growth
DelayConstant(attempt) == RETRY_DELAY

\* API_CONFIG.RETRY_DELAY * Math.pow(2, attempt - 1)
Delay(attempt) == RETRY_DELAY * 2 ^ (attempt - 1)

\* result.error.includes('Server error')
IsServerError(text) == Includes(text, "Server error")

\* the return after the loop
Exhausted(lastError) ==
    [threw |-> FALSE, letter |-> "",
     error |-> IF lastError # NoError THEN lastError ELSE <<"Max retry attempts reached">>]

\* predictSignWithRetry(landmarks, maxAttempts) up to its first await
CallWithRetry(maxAttempts, malformed) ==
    /\ retry.pc = "idle"
    /\ retry' = IF 1 <= maxAttempts
                THEN [NotCalled EXCEPT !.pc = "call", !.maxAttempts = maxAttempts,
                                       !.malformed = malformed, !.attempt = 1, !.due = clock]
                ELSE [NotCalled EXCEPT !.pc = "done", !.maxAttempts = maxAttempts,
                                       !.malformed = malformed, !.attempt = 1,
                                       !.result = Exhausted(NoError)]
    /\ attempts' = attempts
    /\ UNCHANGED <<env, clock, bridgeVars, screenVars, videoVars, otherVars>>

\* the end of the loop body: wait and go round, or leave the loop and return
AfterAttempt(lastError) ==
    IF retry.attempt < retry.maxAttempts
    THEN retry' = [retry EXCEPT !.pc = "wait", !.lastError = lastError,
                                !.due = clock + Delay(retry.attempt),
                                !.waits = Append(@, Delay(retry.attempt))]
    ELSE retry' = [retry EXCEPT !.pc = "done", !.lastError = lastError,
                                !.attempt = @ + 1, !.result = Exhausted(lastError)]

\* the awaited predictSign settles, with what the POST came to
AttemptDone(o) ==
    /\ retry.pc = "call"
    /\ retry.malformed <=> o.kind = "malformed_input"
    /\ LET result == predictSign(o) IN
        /\ attempts' = Append(attempts, [kind |-> o.kind, result |-> result,
                                          started |-> retry.due, ended |-> clock])
        /\ IF result.threw
           THEN AfterAttempt(<<"Unknown error occurred">>)
           ELSE IF result.error = NoError
           THEN retry' = [retry EXCEPT !.pc = "done", !.result = result]
           ELSE IF IsServerError(result.error)
           THEN retry' = [retry EXCEPT !.pc = "done", !.lastError = result.error,
                                       !.result = result]
           ELSE AfterAttempt(result.error)
    /\ UNCHANGED <<env, clock, bridgeVars, screenVars, videoVars, otherVars>>

\* the backoff's setTimeout fires and the next attempt begins
BackoffDone ==
    /\ retry.pc = "wait"
    /\ clock >= retry.due
    /\ retry' = [retry EXCEPT !.pc = "call", !.attempt = @ + 1, !.due = clock]
    /\ attempts' = attempts
    /\ UNCHANGED <<env, clock, bridgeVars, screenVars, videoVars, otherVars>>

(* --------------------------- specifications ---------------------------- *)
\* the WebView and the clock
BridgeStep(types, poses) ==
    \/ HandleReady
    \/ \E c \in CallIds, t \in types, p \in poses : HandleMessage(c, t, p)
    \/ Tick

TimeoutStep == \E c \in CallIds : TimeoutFire(c)

ManualStep(responses) ==
    \/ HandleCapture
    \/ \E photo \in BOOLEAN : ManualCameraDone(photo)
    \/ \E r \in responses : ManualClassifyDone(r)

\* the steps of the loop chains
LoopStep(responses) ==
    \/ \E k \in ChainIds : LoopTimerFire(k)
    \/ \E k \in ChainIds, photo \in BOOLEAN : AutoCameraDone(k, photo)
    \/ \E k \in ChainIds, r \in responses : AutoClassifyDone(k, r)

AutoStep(responses) ==
    \/ ToggleAutoMode
    \/ ToggleSpeech
    \/ LoopStep(responses)

SentenceStep ==
    \/ HandleSpace
    \/ HandleBackspace
    \/ HandleClear
    \/ Render

LoopTick == AUTO_CAPTURE_INTERVAL \div 3

\* The camera screen as a whole during its first seconds: manual capture,
\* auto-capture, the sentence buttons.
Init ==
    /\ env = [calls |-> MaxCalls, runs |-> MaxRuns, step |-> AUTO_CAPTURE_INTERVAL,
              active |-> ScreenSteps * AUTO_CAPTURE_INTERVAL,
              horizon |-> ScreenSteps * AUTO_CAPTURE_INTERVAL, space |-> MaxSpace]
    /\ Mounted

Next ==
    \/ BridgeStep(MessageTypes, {"P"})
    \/ ManualStep(Responses)
    \/ AutoStep(Responses)
    \/ SentenceStep

Spec == Init /\ [][Next]_vars

\* The detector bridge under manual captures, past its 15 s timeout.
InitBridge ==
    /\ env = [calls |-> MaxCalls, runs |-> 1, step |-> AUTO_CAPTURE_INTERVAL,
              active |-> DETECT_TIMEOUT,
              horizon |-> DETECT_TIMEOUT + BridgeSteps * AUTO_CAPTURE_INTERVAL,
              space |-> MaxSpace]
    /\ Mounted

NextBridge ==
    \/ BridgeStep(MessageTypes, {"P"})
    \/ TimeoutStep
    \/ ManualStep(Responses)

SpecBridge == InitBridge /\ [][NextBridge]_vars

\* A manual capture beside one loop chain, until every timeout has come due.
\* The clock advances and due timers fire; the WebView may stay silent.
InitLive ==
    /\ env = [calls |-> MaxCalls, runs |-> 1, step |-> AUTO_CAPTURE_INTERVAL,
              active |-> ScreenSteps * AUTO_CAPTURE_INTERVAL,
              horizon |-> ScreenSteps * AUTO_CAPTURE_INTERVAL + DETECT_TIMEOUT,
              space |-> MaxSpace]
    /\ Mounted

NextLive ==
    \/ BridgeStep(MessageTypes, {"P"})
    \/ TimeoutStep
    \/ ManualStep(Responses)
    \/ ToggleAutoMode
    \/ LoopStep(Responses)

SpecLive ==
    /\ InitLive
    /\ [][NextLive]_vars
    /\ WF_vars(Tick)
    /\ \A c \in 1..MaxCalls : WF_vars(TimeoutFire(c))

\* The same, with a camera and a classifier that answer every manual capture:
\* takePictureAsync settles and predictSign returns (C18), so that a capture
\* can be held up only by the detector.
SpecCapture ==
    /\ InitLive
    /\ [][NextLive]_vars
    /\ WF_vars(Tick)
    /\ \A c \in 1..MaxCalls : WF_vars(TimeoutFire(c))
    /\ WF_vars(\E photo \in BOOLEAN : ManualCameraDone(photo))
    /\ WF_vars(\E r \in Responses : ManualClassifyDone(r))

\* A manual capture beside one loop chain: the capture is begun before
\* auto-capture is switched on and ends while the loop is accepting letters.
InitMixed ==
    /\ env = [calls |-> MixedCalls, runs |-> 1, step |-> LoopTick,
              active |-> MixedSteps * LoopTick, horizon |-> MixedSteps * LoopTick,
              space |-> MaxSpace]
    /\ Mounted

NextMixed ==
    \/ BridgeStep({"landmarks", "no_hand"}, {"P"})
    \/ ManualStep(Responses)
    \/ ToggleAutoMode
    \/ LoopStep(Responses)

SpecMixed == InitMixed /\ [][NextMixed]_vars

\* One auto-capture loop chain over every pose.
InitLoop ==
    /\ env = [calls |-> LoopCalls, runs |-> 1, step |-> LoopTick,
              active |-> LoopSteps * LoopTick, horizon |-> LoopSteps * LoopTick,
              space |-> MaxSpace]
    /\ Mounted

NextLoop ==
    \/ BridgeStep(MessageTypes, Poses)
    \/ ToggleAutoMode
    \/ LoopStep(Responses)

SpecLoop == InitLoop /\ [][NextLoop]_vars

\* One loop chain before a WebView that answers with well-formed and with
\* malformed landmark arrays.
InitPose ==
    /\ env = [calls |-> LoopCalls, runs |-> 1, step |-> LoopTick,
              active |-> PoseSteps * LoopTick, horizon |-> PoseSteps * LoopTick,
              space |-> MaxSpace]
    /\ Mounted

NextPose ==
    \/ BridgeStep({"landmarks", "no_hand"}, {"P"} \cup Malformed)
    \/ ToggleAutoMode
    \/ LoopStep(Responses)

SpecPose == InitPose /\ [][NextPose]_vars

\* One loop chain before a hand that moves between every pose, with malformed
\* answers of the WebView among the well-formed ones.
InitTrack ==
    /\ env = [calls |-> LoopCalls, runs |-> 1, step |-> LoopTick,
              active |-> TrackSteps * LoopTick, horizon |-> TrackSteps * LoopTick,
              space |-> MaxSpace]
    /\ Mounted

NextTrack ==
    \/ BridgeStep({"landmarks", "no_hand"}, AllPoses)
    \/ ToggleAutoMode
    \/ LoopStep(Responses)

SpecTrack == InitTrack /\ [][NextTrack]_vars

\* Overlapping loop chains classifying one held pose.
InitDup ==
    /\ env = [calls |-> LoopCalls, runs |-> MaxRuns, step |-> LoopTick,
              active |-> DupSteps * LoopTick, horizon |-> DupSteps * LoopTick,
              space |-> MaxSpace]
    /\ Mounted

NextDup ==
    \/ BridgeStep({"landmarks", "no_hand"}, {"P"})
    \/ AutoStep(Responses)

SpecDup == InitDup /\ [][NextDup]_vars

\* The real-time detection screen and the frame admission service.
InitVideo ==
    /\ env = [calls |-> 0, runs |-> 0, step |-> MIN_FRAME_INTERVAL,
              active |-> 0, horizon |-> VideoSteps * MIN_FRAME_INTERVAL, space |-> 0]
    /\ Mounted

NextVideo ==
    \/ \E granted \in BOOLEAN : PermissionChange(granted)
    \/ IntervalFire
    \/ \E r \in Responses, throws \in BOOLEAN : FrameDone(r, throws)
    \/ Tick

SpecVideo == InitVideo /\ [][NextVideo]_vars

\* The prediction history of the real-time detection screen.  The screen is
\* taken up while its detection is stopped (before the camera permission is
\* granted, or after it was withdrawn: no interval, the service reset), with
\* the letters it has recorded until then: none, or up to HISTORY_LIMIT
\* letters as processVideoFrame records them, each one different from the one
\* before it and the last one held in lastPredictionRef.  The clock counts
\* from that moment.
Recorded(first, n) ==
    [i \in 1..n |-> IF i % 2 = 1 THEN first ELSE CHOOSE l \in Letters : l # first]

InitHistory ==
    /\ env = [calls |-> 0, runs |-> 0, step |-> MIN_FRAME_INTERVAL,
              active |-> 0, horizon |-> HistorySteps * MIN_FRAME_INTERVAL, space |-> 0]
    /\ Idle
    /\ \E first \in Letters, n \in 0..HISTORY_LIMIT :
          /\ history = Recorded(first, n)
          /\ lastPredictionRef = IF n = 0 THEN "" ELSE history[n]

NextHistory ==
    \/ \E granted \in BOOLEAN : PermissionChange(granted)
    \/ IntervalFire
    \/ \E r \in Responses, throws \in BOOLEAN : FrameDone(r, throws)
    \/ HandleClearHistory
    \/ Tick

SpecHistory == InitHistory /\ [][NextHistory]_vars

\* The detector bridge under a caller that calls at any time, before and
\* after the WebView's 'ready'.
InitClient ==
    /\ env = [calls |-> ClientCalls, runs |-> 0, step |-> AUTO_CAPTURE_INTERVAL,
              active |-> ScreenSteps * AUTO_CAPTURE_INTERVAL,
              horizon |-> ScreenSteps * AUTO_CAPTURE_INTERVAL, space |-> 0]
    /\ Mounted

NextClient ==
    \/ BridgeStep(MessageTypes, {"P"})
    \/ ClientDetect

SpecClient == InitClient /\ [][NextClient]_vars

\* One call of predictSignWithRetry, with every number of attempts up to the
\* default, until its last backoff has passed.
InitRetry ==
    /\ env = [calls |-> 0, runs |-> 0, step |-> RETRY_DELAY, active |-> 0,
              horizon |-> RetrySteps * RETRY_DELAY, space |-> 0]
    /\ Mounted

NextRetry ==
    \/ \E n \in 0..MaxAttempts, malformed \in BOOLEAN : CallWithRetry(n, malformed)
    \/ \E o \in Outcomes : AttemptDone(o)
    \/ BackoffDone
    \/ Tick

SpecRetry == InitRetry /\ [][NextRetry]_vars

(* ------------------------ HandDetectionService ------------------------- *)
beyondHands == <<env, clock, bridgeVars, screenVars, videoVars, retryVars, measure>>

\* isReady()
ServiceIsReady == isInitialized /\ detector # 0

getStatus ==
    IF isInitializing THEN "initializing"
    ELSE IF isInitialized THEN "ready"
    ELSE "not_initialized"

\* an initialize() that looks at isInitialized only
AlreadyInitialized == isInitialized

\* the test initialize() returns on
AlreadyLoading == isInitialized \/ isInitializing

\* initialize(), to its return or to `await tf.ready()`
Initialize ==
    /\ IF AlreadyLoading
       THEN /\ UNCHANGED <<isInitializing, loads>>
            /\ lastHandCall' = [NoHandCall EXCEPT !.op = "initialize", !.returned = TRUE]
       ELSE /\ Len(loads) < MaxLoads
            /\ isInitializing' = TRUE
            /\ loads' = Append(loads, "tf.ready")
            /\ lastHandCall' = [NoHandCall EXCEPT !.op = "initialize", !.started = TRUE]
    /\ UNCHANGED <<detector, created, isInitialized, estimates, beyondHands>>

Without(s, i) == [j \in 1..(Len(s) - 1) |-> IF j < i THEN s[j] ELSE s[j + 1]]

\* the catch and the finally block of initialize()
LoadFailed(i) ==
    /\ isInitialized' = FALSE
    /\ isInitializing' = FALSE
    /\ loads' = Without(loads, i)
    /\ lastHandCall' = [NoHandCall EXCEPT !.op = "load", !.failed = TRUE,
                                          !.returned = TRUE, !.threw = TRUE]
    /\ UNCHANGED <<detector, created>>

\* initialize() resumed from `await tf.ready()`, to `await createDetector()`
TfReady(i, ok) ==
    /\ i \in 1..Len(loads) /\ loads[i] = "tf.ready"
    /\ IF ok
       THEN /\ loads' = [loads EXCEPT ![i] = "createDetector"]
            /\ lastHandCall' = [NoHandCall EXCEPT !.op = "tf.ready"]
            /\ UNCHANGED <<detector, created, isInitialized, isInitializing>>
       ELSE LoadFailed(i)
    /\ UNCHANGED <<estimates, beyondHands>>

\* initialize() resumed from `await createDetector()`, to its end
DetectorCreated(i, ok) ==
    /\ i \in 1..Len(loads) /\ loads[i] = "createDetector"
    /\ IF ok
       THEN /\ created < MaxDetectors
            /\ created' = created + 1
            /\ detector' = created'
            /\ isInitialized' = TRUE
            /\ isInitializing' = FALSE
            /\ loads' = Without(loads, i)
            /\ lastHandCall' = [NoHandCall EXCEPT !.op = "load", !.returned = TRUE]
       ELSE LoadFailed(i)
    /\ UNCHANGED <<estimates, beyondHands>>

\* detectHands(), to its return or to `await estimateHands()`
DetectHands ==
    /\ IF ~isInitialized \/ detector = 0
       THEN /\ estimates' = estimates
            /\ lastHandCall' = [NoHandCall EXCEPT !.op = "detectHands", !.returned = TRUE]
       ELSE /\ estimates < MaxEstimates
            /\ estimates' = estimates + 1
            /\ lastHandCall' = [NoHandCall EXCEPT !.op = "detectHands"]
    /\ UNCHANGED <<detector, created, isInitialized, isInitializing, loads, beyondHands>>

\* detectHands() resumed from `await estimateHands()`: a hand, no hand, or an
\* exception, which it catches
EstimateDone(outcome) ==
    /\ estimates > 0
    /\ estimates' = estimates - 1
    /\ lastHandCall' = [NoHandCall EXCEPT !.op = "estimateHands", !.returned = TRUE,
                                          !.detected = (outcome = "hand")]
    /\ UNCHANGED <<detector, created, isInitialized, isInitializing, loads, beyondHands>>

\* dispose()
Dispose ==
    /\ detector' = 0
    /\ isInitialized' = FALSE
    /\ lastHandCall' = [NoHandCall EXCEPT !.op = "dispose", !.returned = TRUE]
    /\ UNCHANGED <<created, isInitializing, loads, estimates, beyondHands>>

\* The service under callers that call its methods at any time.
InitHands ==
    /\ env = [calls |-> 0, runs |-> 0, step |-> 0, active |-> 0, horizon |-> 0, space |-> 0]
    /\ Mounted

NextHands ==
    \/ Initialize
    \/ \E i \in 1..MaxLoads, ok \in BOOLEAN : TfReady(i, ok)
    \/ \E i \in 1..MaxLoads, ok \in BOOLEAN : DetectorCreated(i, ok)
    \/ DetectHands
    \/ \E outcome \in {"hand", "none", "throw"} : EstimateDone(outcome)
    \/ Dispose

SpecHands == InitHands /\ [][NextHands]_vars

\* Calls of landmarkDistance on every pair of landmark arrays.
MeasureDistance(a, b) ==
    /\ measure' = [a |-> a, b |-> b, called |-> TRUE, dist |-> landmarkDistance(a, b)]
    /\ UNCHANGED <<env, clock, bridgeVars, screenVars, videoVars, retryVars, handVars>>

InitDistance ==
    /\ env = [calls |-> 0, runs |-> 0, step |-> 0, active |-> 0, horizon |-> 0, space |-> 0]
    /\ Mounted

NextDistance == \E a \in PoseArrays, b \in PoseArrays : MeasureDistance(a, b)

SpecDistance == InitDistance /\ [][NextDistance]_vars

(* ------------------------------ properties ----------------------------- *)
Pending == {c \in CallIds : calls[c].st = "pending"}
CallStates == [c \in CallIds |-> calls[c].st]

\* C1: a call that the WebView never answers is resolved by the timeout no
\* earlier than 15000 ms after that same call was issued. Under SpecBridge the
\* calls are serialized (a capture is started only after the previous one has
\* finished), yet the timer of an answered call resolves the call that
\* follows it.
C1_TimeoutNotBeforeOwnDeadline ==
    lastSettle.by = "timeout" /\ lastSettle.call # 0
        => lastSettle.elapsed >= DETECT_TIMEOUT

\* C2: every call that passed the readiness check is eventually settled,
\* whatever interleaves. Under SpecLive the clock advances and every due timer
\* fires, yet a call whose resolver was overwritten stays pending.
C2_EveryCallSettled ==
    \A c \in 1..MaxCalls : [](calls[c].st = "pending" => <>(calls[c].st = "resolved"))

\* C3: the second arrival for a call (its timer after it was resolved, or its
\* message after it was resolved) changes neither the stored resolver nor the
\* state of any call.
C3_SecondArrivalIsNoOp ==
    [][\A c \in CallIds :
          /\ calls[c].st = "resolved"
          /\ \/ c \in timeouts /\ c \notin timeouts'
             \/ c \in inflight /\ c \notin inflight'
          => resolverRef' = resolverRef /\ CallStates' = CallStates]_vars

\* C4: a call resolved by a message is resolved by the WebView's answer to the
\* image that same call sent.
C4_ReplyCorrelated ==
    lastSettle.by \in MessageTypes /\ lastSettle.call # 0
        => lastSettle.src = lastSettle.call

\* C5: at most one detect() call is outstanding in every reachable state.
\* Under Spec a manual capture and a loop chain, or two loop chains, each have
\* a call pending.
C5_SingleInFlight == Cardinality(Pending) <= 1

\* C6: a cycle that was suspended at an await when auto-capture was disabled
\* changes neither the tracking refs nor the sentence when it resumes, also
\* after auto-capture was enabled again.
C6_StaleCycleIsInert ==
    [][\A k \in ChainIds :
          chains[k].stale /\ chains'[k] # chains[k]
              => UNCHANGED <<trackingVars, sentence>>]_vars

\* C7: while one pose is held, frame after frame, the classifier is invoked
\* once for it. Under SpecLoop a single loop chain sees [P, P, P, P] and
\* invokes the classifier at the second and at the fourth frame.
C7_HeldPoseSubmittedOnce == heldSubmits <= 1

\* C8: a cycle invokes the classifier only if the detector answered with
\* landmarks, a previous pose was stored, the distance to it did not exceed
\* POSE_CHANGE_THRESHOLD and the incremented stableCount reached
\* STABILITY_FRAMES; stableCount is 0 when the classifier is called.
C8_ClassifierOnlyWhenStable ==
    [][\A k \in ChainIds :
          chains[k].pc = "detect" /\ chains'[k].pc = "classify"
              => LET v == chains'[k].det IN
                 /\ v # "null"
                 /\ prevLandmarksRef # "null"
                 /\ Distance[v, prevLandmarksRef] <= POSE_CHANGE_THRESHOLD
                 /\ stableCountRef + 1 >= STABILITY_FRAMES
                 /\ stableCountRef' = 0]_vars

\* a cycle waits for the classifier, for the first time for the held pose
C8_ClassifierInvoked ==
    \E k \in ChainIds :
        /\ chains[k].pc = "classify"
        /\ chains[k].det = prevLandmarksRef
        /\ stableCountRef = 0
        /\ heldSubmits = 1

\* C9: the auto-capture path rejects a classified letter iff it equals
\* lastAcceptedLetterRef and less than DUPLICATE_LETTER_COOLDOWN ms have passed
\* since lastAcceptedTimeRef; otherwise it appends the letter and records the
\* letter and the time, and a rejection changes none of them.
C9_DuplicateFilter ==
    [][lastVerdict'.letter # "" =>
          LET letter == lastVerdict'.letter
              now == lastVerdict'.now
              within == now - lastAcceptedTimeRef < DUPLICATE_LETTER_COOLDOWN
          IN  /\ lastVerdict'.accepted <=> ~(letter = lastAcceptedLetterRef /\ within)
              /\ IF lastVerdict'.accepted
                 THEN /\ lastAcceptedLetterRef' = letter
                      /\ lastAcceptedTimeRef' = now
                      /\ sentence' = Append(sentence, letter)
                 ELSE UNCHANGED <<lastAcceptedLetterRef, lastAcceptedTimeRef, sentence>>]_vars

\* a letter was rejected some time after it had been accepted
C9_LetterRejected ==
    /\ lastVerdict.letter # ""
    /\ ~lastVerdict.accepted
    /\ lastVerdict.letter = lastAcceptedLetterRef
    /\ lastVerdict.now > lastAcceptedTimeRef
    /\ sentence = <<lastVerdict.letter>>

\* C10: the sentence never holds two adjacent spaces.
C10_NoDoubleSpace ==
    \A i \in 1..(Len(sentence) - 1) : ~(sentence[i] = " " /\ sentence[i + 1] = " ")

\* a letter was appended after a space while a capture cycle's append was not
\* rendered yet
C10_SpaceThenLetter ==
    /\ Len(sentence) = 3
    /\ sentence[2] = " "
    /\ sentence[3] # " "
    /\ renderedSentence # sentence

\* C11: at most one admitted processVideoFrame cycle is unmatched by its own
\* endProcessing. Under SpecVideo the detection is stopped and started again
\* while a cycle awaits the classifier: reset clears isProcessing and the new
\* interval admits a second cycle.
C11_SingleFlightAdmission == frames <= 1

\* C12: while auto-capture stays enabled every cycle of the loop returns, so
\* that the next one is scheduled. Under SpecLive (the clock advances, every
\* due timer fires) the cycle of the first loop chain awaits a detect() call
\* whose resolver a manual capture has overwritten, and never returns.
C12_CycleReturns ==
    [](autoModeRef /\ chains[1].pc = "detect"
          => <>(~autoModeRef \/ chains[1].pc # "detect"))

\* the tap that turns auto-capture off
TurnsOff == autoMode /\ ~autoMode'
\* a cycle of chain k resumes, auto-capture on, with no hand detected
NoHandOutcome(k) ==
    /\ autoModeRef
    /\ chains[k].pc = "detect" /\ chains'[k].pc # "detect"
    /\ lastSettle'.by \in {"no_hand", "error", "timeout"}

ResultActionable(r) == ~r.error /\ r.letter \notin {"", "Unknown"}

\* C14: a classification result with an error, an empty letter or "Unknown"
\* leaves the sentence unchanged, in the manual and in the auto-capture path,
\* and whatever is appended to the sentence besides a space is the letter of
\* an error-free result consumed by that step.
C14_NonActionableNeverAppended ==
    [][/\ lastResult'.path # "none" /\ ~ResultActionable(lastResult')
          => sentence' = sentence
       /\ Len(sentence') > Len(sentence) /\ sentence'[Len(sentence')] # " "
          => /\ lastResult'.path # "none"
             /\ ResultActionable(lastResult')
             /\ sentence' = Append(sentence, lastResult'.letter)]_vars

\* an error result that carries a letter was consumed, the sentence is empty
C14_ErrorWithLetterDropped ==
    /\ lastResult.path \in {"manual", "auto"}
    /\ lastResult.error
    /\ lastResult.letter \in Letters
    /\ sentence = <<>>

\* C15: a detect() call made before the WebView has sent 'ready' is rejected:
\* it sends no processImage, starts no timer and stores no resolver, so nothing
\* is left pending; a call made once 'ready' has arrived is accepted, with its
\* resolver stored, its timer started and its message sent.
C15_NotReadyRejects ==
    [][nextCall' = nextCall + 1 =>
          IF isReady
          THEN /\ calls'[nextCall].st = "pending"
               /\ resolverRef' = nextCall
               /\ timeouts' = timeouts \cup {nextCall}
               /\ inflight' = inflight \cup {nextCall}
               /\ sent'[nextCall] = 1
          ELSE /\ calls'[nextCall].st = "rejected"
               /\ resolverRef' = 0 /\ timeouts' = {} /\ inflight' = {}
               /\ sent' = sent /\ sent[nextCall] = 0
               /\ \A c \in CallIds : calls'[c].st # "pending"]_vars

C15_RejectedThenAccepted ==
    /\ isReady
    /\ calls[1].st = "rejected"
    /\ calls[2].st = "pending"
    /\ resolverRef = 2

\* C16: when the WebView reports an error, the bridge calls onError with the
\* message, resolves the stored call (if there is one) with null, which is the
\* no-hand value, rejects nothing and clears the slot.
C16_ErrorResolvesAsNoHand ==
    [][lastSettle'.msg = "error" =>
          /\ lastSettle'.onError
          /\ resolverRef' = 0
          /\ \A c \in CallIds : calls'[c].st # "rejected"
          /\ resolverRef # 0 =>
                /\ lastSettle'.call = resolverRef
                /\ lastSettle'.value = "null"
                /\ calls[resolverRef].st = "pending"
                /\ calls'[resolverRef].st = "resolved"]_vars

C16_ErrorWithPendingCall ==
    /\ lastSettle.msg = "error"
    /\ lastSettle.onError
    /\ lastSettle.call # 0
    /\ lastSettle.value = "null"
    /\ calls[lastSettle.call].st = "resolved"
    /\ resolverRef = 0

\* C17: every detect() call that was accepted has had exactly one processImage
\* injected for it, and the step of a timeout callback injects nothing: it
\* neither sends a message nor starts a timer.
C17_OneMessagePerCall ==
    [][/\ \A c \in CallIds :
             sent'[c] = IF c < nextCall' /\ calls'[c].st # "rejected" THEN 1 ELSE 0
       /\ (timeouts' # timeouts /\ timeouts' \subseteq timeouts)
             => sent' = sent /\ inflight' = inflight /\ nextCall' = nextCall]_vars

C17_TimedOutCallSentOnce ==
    /\ lastSettle.by = "timeout"
    /\ lastSettle.call # 0
    /\ calls[lastSettle.call].st = "resolved"
    /\ sent[lastSettle.call] = 1
    /\ lastSettle.call \in inflight

\* C18: predictSign never throws, and whenever the POST did not come to a 2xx
\* response (no response, an error status, landmarks that cannot be formatted,
\* any other exception) its result has a non-empty error and an empty letter.
C18_FailureIsAResult ==
    \A i \in DOMAIN attempts :
        /\ ~attempts[i].result.threw
        /\ attempts[i].kind # "ok" =>
              attempts[i].result.error # NoError /\ attempts[i].result.letter = ""

C18_EveryKindOfFailure ==
    /\ Len(attempts) = 3
    /\ attempts[1].kind = "no_response"
    /\ attempts[2].kind = "other"
    /\ attempts[3].kind = "status"
    /\ retry.pc = "done"

\* C19: predictSignWithRetry makes a further attempt only after an attempt
\* that got no response; after an error status it returns that result at
\* once, and no other failure is followed by another attempt.
C19_RetryOnlyAfterNoResponse ==
    /\ \A i \in DOMAIN attempts :
          (i < Len(attempts) \/ retry.pc \in {"wait", "call"})
              => attempts[i].kind = "no_response"
    /\ (retry.pc = "done" /\ attempts # <<>> /\ attempts[Len(attempts)].kind = "status")
          => retry.result = attempts[Len(attempts)].result

\* C20: predictSignWithRetry invokes predictSign at most maxAttempts times,
\* returns the first result without an error as soon as it has it, starts
\* attempt k+1 no sooner than RETRY_DELAY * 2^(k-1) ms after attempt k failed,
\* and, when every attempt failed, returns a result with the error of the last
\* attempt.
C20_BoundedBackoff ==
    /\ Len(attempts) <= retry.maxAttempts
    /\ \A i \in DOMAIN attempts :
          /\ attempts[i].result.error = NoError =>
                i = Len(attempts) /\ retry.pc = "done" /\ retry.result = attempts[i].result
          /\ i < Len(attempts) =>
                attempts[i + 1].started - attempts[i].ended >= RETRY_DELAY * 2 ^ (i - 1)
    /\ retry.pc = "wait" =>
          retry.due = attempts[Len(attempts)].ended + RETRY_DELAY * 2 ^ (Len(attempts) - 1)
    /\ (retry.pc = "done" /\ attempts # <<>>
            /\ attempts[Len(attempts)].result.error # NoError)
          => /\ retry.result.error = attempts[Len(attempts)].result.error
             /\ ~retry.result.threw

C20_ThreeFailuresTwoWaits ==
    /\ retry.pc = "done"
    /\ retry.maxAttempts = RETRY_ATTEMPTS
    /\ Len(attempts) = RETRY_ATTEMPTS
    /\ attempts[3].started - attempts[2].ended >= 2 * RETRY_DELAY
    /\ retry.result.error = <<"No response from server. Check your internet connection.">>

\* C21: with the default configuration, a classification whose every attempt
\* gets no response has waited, by the time it returns, the three backoffs of
\* 1 s, 2 s and 4 s.
C21_DefaultBackoffWaits ==
    (/\ retry.pc = "done"
     /\ retry.maxAttempts = RETRY_ATTEMPTS
     /\ attempts # <<>>
     /\ \A i \in DOMAIN attempts : attempts[i].kind = "no_response")
        => retry.waits = <<RETRY_DELAY, 2 * RETRY_DELAY, 4 * RETRY_DELAY>>

\* C22: in a capture cycle, manual or auto, a classification that got no
\* response reaches the cycle only after predictSignWithRetry has retried it
\* with backoff; a definitive rejection reaches it without any retry.
C22_TransportErrorRetried ==
    [][lastResult'.path # "none" =>
          /\ lastResult'.kind = "no_response" => retry'.pc = "done" /\ retry'.waits # <<>>
          /\ lastResult'.kind = "status" => retry'.waits = <<>>]_vars

\* C23: a pose that validateLandmarks refuses is never sent to the classifier,
\* and the auto-capture cycle that meets it ends as a cycle without a hand
\* does: previous pose cleared, stable count 0, nothing appended.
C23_MalformedPoseIsNoHand ==
    [][lastResult'.path = "auto" /\ lastResult'.kind = "malformed_input" =>
          /\ prevLandmarksRef' = "null"
          /\ stableCountRef' = 0
          /\ sentence' = sentence]_vars

\* C24: the duplicate filter runs only in the auto-capture path.  A manual
\* capture whose result is actionable appends its letter, also when the letter
\* equals lastAcceptedLetterRef and less than 2000 ms have passed since it was
\* accepted, and a manual capture leaves lastAcceptedLetterRef and
\* lastAcceptedTimeRef as they are.
C24_ManualAlwaysAppends ==
    [][lastResult'.path = "manual" =>
          /\ ResultActionable(lastResult') => sentence' = Append(sentence, lastResult'.letter)
          /\ UNCHANGED <<lastAcceptedLetterRef, lastAcceptedTimeRef>>
          /\ lastVerdict' = NoVerdict]_vars

C24_ManualRepeatsAcceptedLetter ==
    /\ lastResult.path = "manual"
    /\ ResultActionable(lastResult)
    /\ lastResult.letter = lastAcceptedLetterRef
    /\ clock - lastAcceptedTimeRef < DUPLICATE_LETTER_COOLDOWN
    /\ Len(sentence) >= 2
    /\ sentence[Len(sentence)] = lastAcceptedLetterRef
    /\ sentence[Len(sentence) - 1] = lastAcceptedLetterRef

\* C25: a manual capture bypasses the stability machine.  Whatever pose the
\* detector resolves the capture's call with goes to the classifier, on the
\* first detection and whatever prevLandmarksRef and stableCountRef hold, and
\* no step of the manual capture changes those two.
C25_ManualBypassesStability ==
    [][/\ (manual = "detect" /\ lastSettle'.call # 0 /\ calls[lastSettle'.call].owner = 0
              /\ calls[lastSettle'.call].st = "pending" /\ lastSettle'.value # "null")
            => manual' = "classify" /\ manualDetection' = lastSettle'.value
       /\ (manual' # manual \/ lastResult'.path = "manual")
            => UNCHANGED <<prevLandmarksRef, stableCountRef>>]_vars

C25_FirstDetectionClassified ==
    /\ lastResult.path = "manual"
    /\ ResultActionable(lastResult)
    /\ sentence = <<lastResult.letter>>
    /\ prevLandmarksRef = "null"
    /\ stableCountRef = 0
    /\ nextCall = 2

\* C26: shouldProcessFrame increments frameCount on every call, also on the
\* calls that return false because a cycle is still in progress.
C26_CounterCountsEveryCall ==
    [][lastVideo'.op = "shouldProcessFrame" /\ lastVideo' # lastVideo
          => frameCount' = frameCount + 1]_vars

\* C27: shouldProcessFrame returns true exactly when no cycle is in progress,
\* frameCount after the call is a multiple of frameSkip and at least
\* minFrameInterval has passed since lastProcessTime; it leaves isProcessing
\* and lastProcessTime as they were.
C27_AdmissionPredicate ==
    [][lastVideo'.op = "shouldProcessFrame" /\ lastVideo' # lastVideo =>
          /\ lastVideo'.result <=>
                /\ ~isProcessing
                /\ lastVideo'.frameCount % FRAME_SKIP = 0
                /\ DateNow - lastProcessTime >= MIN_FRAME_INTERVAL
          /\ lastVideo'.isProcessing = isProcessing
          /\ lastVideo'.lastProcessTime = lastProcessTime]_vars

C27_AdmittedThenRefused ==
    /\ lastVideo.op = "shouldProcessFrame"
    /\ ~lastVideo.result
    /\ lastVideo.isProcessing
    /\ lastVideo.frameCount = FRAME_SKIP
    /\ frames = 1

\* C28: when a cycle of processVideoFrame that called startProcessing
\* completes, by its end, by the return of the error branch or by an
\* exception, isProcessing is false.
C28_EveryExitEndsProcessing ==
    [][frames' < frames => ~isProcessing' /\ lastVideo'.path \in {"normal", "error", "throw"}]_vars

C28_ThrowEndsProcessing ==
    /\ lastVideo.op = "processVideoFrame"
    /\ lastVideo.path = "throw"
    /\ ~isProcessing
    /\ frames = 0
    /\ frameCount = FRAME_SKIP

\* C29: handleSpace changes nothing when the sentence is empty or ends with a
\* space, and appends exactly one space to it otherwise; a second tap right
\* after a first one is therefore a no-op.
C29_SpaceOnCurrentSentence ==
    [][lastTap' = "space" =>
          sentence' = IF Len(sentence) = 0 \/ EndsWithSpace(sentence)
                      THEN sentence
                      ELSE Append(sentence, " ")]_vars

\* C30: handleBackspace changes nothing on an empty sentence and removes
\* exactly the last character of a non-empty one; handleClear empties the
\* sentence whatever it holds.
C30_BackspaceOnCurrentSentence ==
    [][/\ lastTap' = "backspace" =>
             sentence' = IF Len(sentence) = 0 THEN sentence
                         ELSE SubSeq(sentence, 1, Len(sentence) - 1)
       /\ lastTap' = "clear" => sentence' = <<>>]_vars

\* C31: for any two landmark arrays of equal length that are not empty,
\* landmarkDistance(a, b) equals landmarkDistance(b, a), and the distance of an
\* array to itself is 0.
C31_DistanceSymmetry ==
    (measure.called /\ Len(measure.a) = Len(measure.b) /\ Len(measure.a) > 0) =>
        /\ measure.dist = landmarkDistance(measure.b, measure.a)
        /\ measure.a = measure.b => measure.dist = 0

\* two different arrays of two landmarks have been measured, at a distance
\* that is not zero
C31_DifferentArraysMeasured ==
    /\ measure.called
    /\ Len(measure.a) = MaxLandmarks /\ Len(measure.b) = MaxLandmarks
    /\ measure.a # measure.b
    /\ measure.dist > 0

\* C32: when a previous pose is stored and the new pose lies further than
\* POSE_CHANGE_THRESHOLD from it (arrays of different lengths lie infinitely
\* far apart), the cycle stores the new pose as the previous pose, sets
\* stableCount to 1 and does not call the classifier; at a distance within the
\* threshold the previous pose stays and stableCount is counted up or, when it
\* reaches STABILITY_FRAMES, set to 0.
C32_PoseChanged ==
    [][\A k \in ChainIds :
          (/\ chains[k].pc = "detect" /\ chains'[k].pc # "detect"
           /\ lastSettle'.value \in AllPoses
           /\ autoModeRef
           /\ prevLandmarksRef # "null")
              => LET v == lastSettle'.value IN
                 IF landmarkDistance(Landmarks(v), Landmarks(prevLandmarksRef)) > POSE_CHANGE_THRESHOLD
                 THEN /\ prevLandmarksRef' = v
                      /\ stableCountRef' = 1
                      /\ chains'[k].pc # "classify"
                 ELSE /\ prevLandmarksRef' = prevLandmarksRef
                      /\ stableCountRef' =
                            IF stableCountRef + 1 < STABILITY_FRAMES
                            THEN stableCountRef + 1 ELSE 0]_vars

\* a well-formed pose has just replaced a malformed previous pose, whose array
\* has another length
C32_ChangedAfterOtherLength ==
    /\ lastSettle.value \in Poses
    /\ heldPose = lastSettle.value
    /\ heldAgainst \in Malformed
    /\ prevLandmarksRef = heldPose
    /\ stableCountRef = 1
    /\ \E k \in ChainIds : chains[k].pc = "timer"

\* C33: at most one loop chain of the auto-capture effect is alive (waiting
\* for its timer or within a cycle) in every reachable state, so that two
\* cycles of runSingleAutoCapture never overlap.  Under SpecDup the effect runs
\* again while the cycle of its previous run is suspended, and the chain of
\* that run goes on beside the new one.
C33_OneLoopChain == Cardinality({k \in ChainIds : chains[k].pc # "none"}) <= 1

\* C34: once handleCapture has set isCapturing, isCapturing returns to false,
\* on every path and in every interleaving.  Under SpecCapture (the clock
\* advances, every due timer fires, the camera and the classifier answer) the
\* capture awaits a detect() call whose resolver a cycle of the loop has
\* overwritten, and isCapturing stays true.
C34_CaptureFinishes == isCapturing ~> ~isCapturing

\* C35: between capture cycles stableCount lies in 0..STABILITY_FRAMES-1, and
\* it is 0 whenever no previous pose is stored.
C35_TrackingInvariant ==
    /\ stableCountRef \in 0..(STABILITY_FRAMES - 1)
    /\ prevLandmarksRef = "null" => stableCountRef = 0

\* a held pose is counted again after the count had reached STABILITY_FRAMES
\* and the pose had been sent to the classifier
C35_CountingAfterSubmit ==
    /\ heldSubmits = 1
    /\ prevLandmarksRef = heldPose
    /\ heldAgainst = heldPose
    /\ stableCountRef = STABILITY_FRAMES - 1

\* C36: a letter that the cooldown filter rejects leaves the last accepted
\* letter, its time, the previous pose and the sentence as they were; the
\* window counts from the last acceptance, so that the letter is accepted once
\* DUPLICATE_LETTER_COOLDOWN ms have passed since then, whatever was rejected
\* in between.
C36_RejectionKeepsWindow ==
    [][lastVerdict'.letter # "" =>
          /\ ~lastVerdict'.accepted =>
                UNCHANGED <<lastAcceptedLetterRef, lastAcceptedTimeRef, prevLandmarksRef,
                            sentence>>
          /\ lastVerdict'.now - lastAcceptedTimeRef >= DUPLICATE_LETTER_COOLDOWN =>
                lastVerdict'.accepted]_vars

\* the held letter was rejected in the last step of the clock before its
\* window ends
C36_RejectedLateInWindow ==
    /\ lastVerdict.letter # ""
    /\ ~lastVerdict.accepted
    /\ lastVerdict.now - lastAcceptedTimeRef > 0
    /\ lastVerdict.now - lastAcceptedTimeRef + env.step >= DUPLICATE_LETTER_COOLDOWN
    /\ prevLandmarksRef = heldPose
    /\ sentence = <<lastAcceptedLetterRef>>

\* C37: a cycle whose pose lies within the threshold of the previous pose
\* (Stabilizing or ReadyToSubmit) leaves the previous pose as it is, and a new
\* pose is stored as the previous pose only by a FirstPose or PoseChanged
\* cycle and by the acceptance of a letter.
C37_AnchoredPose ==
    [][/\ \A k \in ChainIds :
             (/\ chains[k].pc = "detect" /\ chains'[k].pc # "detect"
              /\ lastSettle'.value \in AllPoses
              /\ autoModeRef
              /\ prevLandmarksRef # "null"
              /\ landmarkDistance(Landmarks(lastSettle'.value), Landmarks(prevLandmarksRef))
                     <= POSE_CHANGE_THRESHOLD)
                 => prevLandmarksRef' = prevLandmarksRef
       /\ prevLandmarksRef' \notin {prevLandmarksRef, "null"} =>
             \/ /\ lastSettle'.value = prevLandmarksRef'
                /\ \/ prevLandmarksRef = "null"
                   \/ landmarkDistance(Landmarks(prevLandmarksRef'), Landmarks(prevLandmarksRef))
                         > POSE_CHANGE_THRESHOLD
             \/ /\ lastVerdict'.accepted
                /\ \E k \in ChainIds : chains[k].pc = "classify" /\ chains[k].det = prevLandmarksRef'
      ]_vars

\* a pose that has moved within the threshold of the stored pose is sent to
\* the classifier, and the stored pose is still the earlier one
C37_MovedWithinThreshold ==
    /\ heldPose \in Poses /\ prevLandmarksRef \in Poses
    /\ heldPose # prevLandmarksRef
    /\ heldAgainst = prevLandmarksRef
    /\ lastSettle.value = heldPose
    /\ \E k \in ChainIds : chains[k].pc = "classify" /\ chains[k].det = heldPose

\* C38: the sentence never begins with a space: its first character, when
\* there is one, is a letter that a capture has appended.
C38_NoLeadingSpace == Len(sentence) > 0 => sentence[1] \in Letters

\* Space was tapped on a sentence that was empty again after a letter had been
\* accepted, and the sentence is still empty
C38_SpaceOnEmptiedSentence ==
    /\ lastTap = "space"
    /\ lastAcceptedLetterRef # ""
    /\ sentence = <<>>

\* C39: the prediction history holds at most HISTORY_LIMIT items and no two
\* adjacent items carry the same letter; it changes only by a clear or by one
\* item added at its end, the oldest item dropped when it was full; and a
\* frame whose letter is the last recorded prediction adds no item.
C39_PredictionHistory ==
    /\ [](/\ Len(history) <= HISTORY_LIMIT
          /\ \A i \in 1..(Len(history) - 1) : history[i] # history[i + 1])
    /\ [][/\ history' # history =>
                \/ history' = <<>>
                \/ \E l \in Letters \cup {"Unknown"} :
                      history' = IF Len(history) < HISTORY_LIMIT
                                 THEN Append(history, l)
                                 ELSE Append(Tail(history), l)
          /\ (frames' < frames /\ lastVideo'.letter = lastPredictionRef) =>
                history' = history]_vars

\* a frame has added its letter to a full history, whose oldest item was
\* dropped
C39_OldestDropped ==
    /\ lastVideo.op = "processVideoFrame"
    /\ lastVideo.dropped = 1
    /\ Len(history) = HISTORY_LIMIT
    /\ history[HISTORY_LIMIT] = lastVideo.letter
    /\ lastPredictionRef = lastVideo.letter

====
